---- MODULE Spec2Model ----
(***************************************************************************)
(* Model of aphrodite/modeling/layers/quantization/smoothquant.py:          *)
(*   - Int8GEMM, the lazily constructed shared kernel handle, and           *)
(*     SQLinearMethod.__init__ that binds an operator to it   (SpecGemm)    *)
(*   - SmoothQuantConfig.__init__ / from_config               (SpecPolicy)  *)
(*   - SQLinearMethod.create_weights / apply_weights          (SpecLinear,  *)
(*                                                             SpecCall)    *)
(***************************************************************************)
EXTENDS Integers, Sequences, FiniteSets, TLC

VARIABLES
    \* ---- Int8GEMM / SQLinearMethod.__init__ ----
    pc,                 \* per thread: position inside get_linear_method()
    calls,              \* per thread: get_linear_method() calls started
    self_,              \* per thread: the object Int8GEMM() returned (local i8_gemm / self)
    tmp,                \* per thread: value returned by ops.I8CUGEMM(), not yet stored
    outcome,            \* per thread: how the thread's latest call ended
    instance,           \* class attribute Int8GEMM._instance (NoInstance: attribute absent)
    i8cugemm,           \* per Int8GEMM object: attribute i8cugemm (NoKernel: attribute absent)
    lock,               \* Int8GEMM._instance_lock: holder thread, or Unlocked
    factoryInvocations, \* number of calls of ops.I8CUGEMM() so far
    factoryFailures,    \* how many of them raised
    operators,          \* SQLinearMethod objects constructed: [thread, call, kernel]
    \* ---- SmoothQuantConfig ----
    policyArgs,         \* the call under way: [op, weight_bits, quant_map, config]
    policyResult,       \* what the call produced: a policy, or the error raised
    \* ---- SQLinearMethod.create_weights / apply_weights ----
    layers,             \* the weights dicts create_weights has returned, in order
    nextId,             \* identity of the next tensor storage this component allocates
    callArgs,           \* SpecCall: the single call under way and its arguments
    callResult          \* what the latest create_weights / apply_weights call did

gemmVars == <<pc, calls, self_, tmp, outcome, instance, i8cugemm, lock,
              factoryInvocations, factoryFailures, operators>>

policyVars == <<policyArgs, policyResult>>

linearVars == <<layers, nextId, callArgs, callResult>>

nonGemmVars == <<policyVars, linearVars>>

vars == <<gemmVars, policyVars, linearVars>>

----------------------------------------------------------------------------
(* Bounds *)
NumThreads == 2
MaxCalls == 2
MaxFactoryFailures == 1
MaxDim == 2         \* SpecCall: largest size of a dimension of a tensor
MaxRank == 2        \* SpecCall: number of leading dimensions of the input
MaxLayers == 2      \* SpecLinear: create_weights calls
MaxApply == 2       \* SpecLinear: apply_weights calls that allocate an output
MaxSize == 1        \* SpecLinear: largest size of a dimension of a tensor

Threads == 1..NumThreads

----------------------------------------------------------------------------
(* Int8GEMM and SQLinearMethod.__init__ *)

NoInstance == 0
NoKernel == 0
Unlocked == 0

\* hasattr(Int8GEMM, "_instance")
HasInstance == instance # NoInstance

\* a plausible slip: __init__ tests the class attribute instead of self.i8cugemm
HasKernelTestsInstance(o) == instance # NoInstance

\* hasattr(self, "i8cugemm")
HasKernel(o) == i8cugemm[o] # NoKernel

GemmInit ==
    /\ pc = [t \in Threads |-> "idle"]
    /\ calls = [t \in Threads |-> 0]
    /\ self_ = [t \in Threads |-> NoInstance]
    /\ tmp = [t \in Threads |-> NoKernel]
    /\ outcome = [t \in Threads |-> "none"]
    /\ instance = NoInstance
    /\ i8cugemm = <<>>
    /\ lock = Unlocked
    /\ factoryInvocations = 0
    /\ factoryFailures = 0
    /\ operators = {}

\* get_linear_method(): SQLinearMethod(Int8GEMM); __init__ calls gemm()
GetLinearMethod(t) ==
    /\ pc[t] = "idle"
    /\ UNCHANGED nonGemmVars
    /\ calls[t] < MaxCalls
    /\ pc' = [pc EXCEPT ![t] = "new_check"]
    /\ calls' = [calls EXCEPT ![t] = @ + 1]
    /\ outcome' = [outcome EXCEPT ![t] = "running"]
    /\ UNCHANGED <<self_, tmp, instance, i8cugemm, lock, factoryInvocations,
                   factoryFailures, operators>>

\* __new__: first, unlocked test
NewCheck(t) ==
    /\ pc[t] = "new_check"
    /\ UNCHANGED nonGemmVars
    /\ pc' = [pc EXCEPT ![t] = IF HasInstance THEN "new_ret" ELSE "new_lock"]
    /\ UNCHANGED <<calls, self_, tmp, outcome, instance, i8cugemm, lock,
                   factoryInvocations, factoryFailures, operators>>

\* __new__: with Int8GEMM._instance_lock (acquire)
NewLock(t) ==
    /\ pc[t] = "new_lock"
    /\ UNCHANGED nonGemmVars
    /\ lock = Unlocked
    /\ lock' = t
    /\ pc' = [pc EXCEPT ![t] = "new_check2"]
    /\ UNCHANGED <<calls, self_, tmp, outcome, instance, i8cugemm,
                   factoryInvocations, factoryFailures, operators>>

\* __new__: second test, under the lock
NewCheck2(t) ==
    /\ pc[t] = "new_check2"
    /\ UNCHANGED nonGemmVars
    /\ pc' = [pc EXCEPT ![t] = IF HasInstance THEN "new_unlock" ELSE "new_create"]
    /\ UNCHANGED <<calls, self_, tmp, outcome, instance, i8cugemm, lock,
                   factoryInvocations, factoryFailures, operators>>

\* __new__: Int8GEMM._instance = object.__new__(cls); the new object has no attributes
NewCreate(t) ==
    /\ pc[t] = "new_create"
    /\ UNCHANGED nonGemmVars
    /\ i8cugemm' = Append(i8cugemm, NoKernel)
    /\ instance' = Len(i8cugemm) + 1
    /\ pc' = [pc EXCEPT ![t] = "new_unlock"]
    /\ UNCHANGED <<calls, self_, tmp, outcome, lock, factoryInvocations,
                   factoryFailures, operators>>

\* __new__: leaving the with block releases the lock
NewUnlock(t) ==
    /\ pc[t] = "new_unlock"
    /\ UNCHANGED nonGemmVars
    /\ lock' = Unlocked
    /\ pc' = [pc EXCEPT ![t] = "new_ret"]
    /\ UNCHANGED <<calls, self_, tmp, outcome, instance, i8cugemm,
                   factoryInvocations, factoryFailures, operators>>

\* __new__: return Int8GEMM._instance; Python then calls __init__ on it
NewReturn(t) ==
    /\ pc[t] = "new_ret"
    /\ UNCHANGED nonGemmVars
    /\ self_' = [self_ EXCEPT ![t] = instance]
    /\ pc' = [pc EXCEPT ![t] = "init_check"]
    /\ UNCHANGED <<calls, tmp, outcome, instance, i8cugemm, lock,
                   factoryInvocations, factoryFailures, operators>>

\* __init__: if not hasattr(self, "i8cugemm")
InitCheck(t) ==
    /\ pc[t] = "init_check"
    /\ UNCHANGED nonGemmVars
    /\ pc' = [pc EXCEPT ![t] = IF HasKernel(self_[t]) THEN "get" ELSE "init_call"]
    /\ UNCHANGED <<calls, self_, tmp, outcome, instance, i8cugemm, lock,
                   factoryInvocations, factoryFailures, operators>>

\* __init__: ops.I8CUGEMM() returns a new native kernel object
FactoryReturns(t) ==
    /\ pc[t] = "init_call"
    /\ UNCHANGED nonGemmVars
    /\ factoryInvocations' = factoryInvocations + 1
    /\ tmp' = [tmp EXCEPT ![t] = factoryInvocations + 1]
    /\ pc' = [pc EXCEPT ![t] = "init_store"]
    /\ UNCHANGED <<calls, self_, outcome, instance, i8cugemm, lock,
                   factoryFailures, operators>>

\* __init__: ops.I8CUGEMM() raises; nothing catches it up to get_linear_method's caller
\* (the frames' locals are dropped)
FactoryRaises(t) ==
    /\ pc[t] = "init_call"
    /\ UNCHANGED nonGemmVars
    /\ factoryFailures < MaxFactoryFailures
    /\ factoryInvocations' = factoryInvocations + 1
    /\ factoryFailures' = factoryFailures + 1
    /\ pc' = [pc EXCEPT ![t] = "idle"]
    /\ outcome' = [outcome EXCEPT ![t] = "KernelFactoryError"]
    /\ self_' = [self_ EXCEPT ![t] = NoInstance]
    /\ UNCHANGED <<calls, tmp, instance, i8cugemm, lock, operators>>

\* __init__: self.i8cugemm = <the value the factory returned>
InitStore(t) ==
    /\ pc[t] = "init_store"
    /\ UNCHANGED nonGemmVars
    /\ i8cugemm' = [i8cugemm EXCEPT ![self_[t]] = tmp[t]]
    /\ tmp' = [tmp EXCEPT ![t] = NoKernel]
    /\ pc' = [pc EXCEPT ![t] = "get"]
    /\ UNCHANGED <<calls, self_, outcome, instance, lock,
                   factoryInvocations, factoryFailures, operators>>

\* SQLinearMethod.__init__: self.i8cugemm = i8_gemm.get_i8cugemm()
\* (reading an absent attribute raises AttributeError)
GetKernel(t) ==
    /\ pc[t] = "get"
    /\ UNCHANGED nonGemmVars
    /\ IF i8cugemm[self_[t]] = NoKernel
         THEN /\ outcome' = [outcome EXCEPT ![t] = "AttributeError"]
              /\ UNCHANGED operators
         ELSE /\ outcome' = [outcome EXCEPT ![t] = "operator"]
              /\ operators' = operators \cup
                    {[thread |-> t, call |-> calls[t], kernel |-> i8cugemm[self_[t]]]}
    /\ pc' = [pc EXCEPT ![t] = "idle"]
    /\ self_' = [self_ EXCEPT ![t] = NoInstance]
    /\ UNCHANGED <<calls, tmp, instance, i8cugemm, lock,
                   factoryInvocations, factoryFailures>>

GemmNext ==
    \E t \in Threads :
        \/ GetLinearMethod(t)
        \/ NewCheck(t)
        \/ NewLock(t)
        \/ NewCheck2(t)
        \/ NewCreate(t)
        \/ NewUnlock(t)
        \/ NewReturn(t)
        \/ InitCheck(t)
        \/ FactoryReturns(t)
        \/ FactoryRaises(t)
        \/ InitStore(t)
        \/ GetKernel(t)

----------------------------------------------------------------------------
(* Claims about the shared kernel handle *)

\* C1: as long as no factory call has failed, ops.I8CUGEMM() is invoked at most
\* once (exactly once as soon as an operator exists) and every operator
\* constructed so far is bound to the same kernel object, in every interleaving.
C1_SingleConstruction ==
    factoryFailures = 0 =>
        /\ factoryInvocations <= 1
        /\ operators # {} => factoryInvocations = 1
        /\ \A a, b \in operators : a.kernel = b.kernel

\* C2: whenever a thread is about to read the kernel object from the shared
\* handle (get_i8cugemm in SQLinearMethod.__init__), the handle holds a
\* constructed kernel object; no call ever ends in a read of a missing kernel.
C2_ReadSeesConstructedKernel ==
    /\ \A t \in Threads : pc[t] = "get" => i8cugemm[self_[t]] # NoKernel
    /\ \A t \in Threads : outcome[t] # "AttributeError"

\* C2 witness: a thread reads the kernel while another thread is still inside
\* the unlocked construction in __init__ (a concurrent first access).
C2_Witness ==
    \E t, u \in Threads :
        /\ t # u
        /\ pc[t] = "get"
        /\ i8cugemm[self_[t]] # NoKernel
        /\ pc[u] \in {"init_call", "init_store"}

\* C10: a step in which the factory raises inside a thread's call ends that call
\* with the error, creates no operator, and leaves the shared handle holding no
\* kernel object (so that the next call invokes the factory again); and no
\* operator is ever bound to a missing kernel object.
C10_FailureLeavesHandleEmpty ==
    [][\A t \in Threads :
          (pc[t] = "init_call" /\ outcome'[t] = "KernelFactoryError") =>
              /\ pc'[t] = "idle"
              /\ operators' = operators
              /\ i8cugemm'[instance'] = NoKernel
              /\ \A o \in operators' : o.kernel # NoKernel]_vars

----------------------------------------------------------------------------
(* SmoothQuantConfig.__init__ and from_config *)

\* Python / JSON values: integers, strings and None, comparable with ==
IntV(n) == [kind |-> "int", int |-> n, str |-> ""]
StrV(x) == [kind |-> "str", int |-> 0, str |-> x]
NoneV == [kind |-> "none", int |-> 0, str |-> ""]

EmptyMap == [k \in {} |-> NoneV]
\* an Optional[dict]: None, or a dict
NoneMap == [none |-> TRUE, map |-> EmptyMap]
Dict(m) == [none |-> FALSE, map |-> m]

\* all dicts with keys among ks and values among vs
DictsOver(ks, vs) == UNION {[d -> vs] : d \in SUBSET ks}

\* inputs of the model
BitWidthKeys == <<"w_bit", "bits">>
ConfigKeys == {"w_bit", "bits", "qkv", "out"}
ConfigValues == {IntV(8), IntV(4), StrV("per-tensor"), StrV("per-token"),
                 StrV("per-channel")}
BitValues == {IntV(8), IntV(4), IntV(16), StrV("8"), NoneV}
MapKeys == {"qkv", "out"}
MapValues == {StrV("per-tensor"), StrV("per-token"), StrV("per-channel")}

NoPolicy == [raised |-> "not called", weight_bits |-> NoneV, quant_map |-> NoneMap,
             warned |-> FALSE]
Raise(e) == [raised |-> e, weight_bits |-> NoneV, quant_map |-> NoneMap,
             warned |-> FALSE]
Policy(b, m) == [raised |-> "", weight_bits |-> b, quant_map |-> m, warned |-> FALSE]

\* a plausible slip: the two validations in the other order
ConstructMapFirst(weight_bits, quant_map) ==
    IF quant_map.none \/ DOMAIN quant_map.map = {}
      THEN Raise("EmptyQuantizationMap")
      ELSE IF weight_bits # IntV(8)
             THEN Raise("UnsupportedBitWidth")
             ELSE Policy(weight_bits, quant_map)

\* a plausible slip: only the empty dict is rejected, None passes
ConstructNoneAccepted(weight_bits, quant_map) ==
    IF weight_bits # IntV(8)
      THEN Raise("UnsupportedBitWidth")
      ELSE IF (~quant_map.none) /\ DOMAIN quant_map.map = {}
             THEN Raise("EmptyQuantizationMap")
             ELSE Policy(weight_bits, quant_map)

\* SmoothQuantConfig.__init__: the two ValueErrors, told apart by their message
Construct(weight_bits, quant_map) ==
    IF weight_bits # IntV(8)
      THEN Raise("UnsupportedBitWidth")
      ELSE IF quant_map.none \/ DOMAIN quant_map.map = {}
             THEN Raise("EmptyQuantizationMap")
             ELSE Policy(weight_bits, quant_map)

\* QuantizationConfig.get_from_keys: the value under the first of keys that the
\* config holds; ValueError when it holds none of them
RECURSIVE GetFromKeys(_, _)
GetFromKeys(config, keys) ==
    IF keys = <<>>
      THEN [found |-> FALSE, value |-> NoneV]
      ELSE IF Head(keys) \in DOMAIN config
             THEN [found |-> TRUE, value |-> config[Head(keys)]]
             ELSE GetFromKeys(config, Tail(keys))

\* a plausible slip: every string value is taken for a granularity
IsGranularityAnyString(value) == value.kind = "str"

\* value in ["per-tensor", "per-token"]
IsGranularity(value) == value \in {StrV("per-tensor"), StrV("per-token")}

\* for key, value in config.items(): if ...: quant_map[key] = value
RECURSIVE ScanItems(_, _, _)
ScanItems(config, todo, quant_map) ==
    IF todo = {}
      THEN quant_map
      ELSE LET key == CHOOSE k \in todo : TRUE
               value == config[key]
           IN ScanItems(config, todo \ {key},
                        IF IsGranularity(value)
                          THEN (key :> value) @@ quant_map
                          ELSE quant_map)

\* SmoothQuantConfig.from_config
from_config(config) ==
    LET got == GetFromKeys(config, BitWidthKeys)
        weight_bits == IF got.found THEN got.value ELSE IntV(8)
        quant_map == ScanItems(config, DOMAIN config, EmptyMap)
    IN [Construct(weight_bits, Dict(quant_map)) EXCEPT !.warned = ~got.found]

NoArgs == [op |-> "none", weight_bits |-> NoneV, quant_map |-> NoneMap,
           config |-> EmptyMap]

PolicyInputs ==
    {[op |-> "construct", weight_bits |-> b, quant_map |-> m, config |-> EmptyMap] :
        b \in BitValues, m \in {NoneMap} \cup {Dict(d) : d \in DictsOver(MapKeys, MapValues)}}
    \cup
    {[op |-> "from_config", weight_bits |-> NoneV, quant_map |-> NoneMap, config |-> c] :
        c \in DictsOver(ConfigKeys, ConfigValues)}

PolicyIdle ==
    /\ policyArgs = NoArgs
    /\ policyResult = NoPolicy

PolicyInit ==
    /\ policyArgs \in PolicyInputs
    /\ policyResult = NoPolicy

\* SmoothQuantConfig(weight_bits, quant_map)
DirectConstruct ==
    /\ policyArgs.op = "construct"
    /\ policyResult = NoPolicy
    /\ policyResult' = Construct(policyArgs.weight_bits, policyArgs.quant_map)
    /\ UNCHANGED <<policyArgs, gemmVars, linearVars>>

\* SmoothQuantConfig.from_config(config)
FromConfig ==
    /\ policyArgs.op = "from_config"
    /\ policyResult = NoPolicy
    /\ policyResult' = from_config(policyArgs.config)
    /\ UNCHANGED <<policyArgs, gemmVars, linearVars>>

PolicyNext == DirectConstruct \/ FromConfig

----------------------------------------------------------------------------
(* Claims about the quantization policy *)

\* the bit width a call is given: the argument, or what the claims say
\* from_config finds ("w_bit", else "bits", else the default 8)
GivenBits ==
    IF policyArgs.op = "construct" THEN policyArgs.weight_bits
    ELSE IF "w_bit" \in DOMAIN policyArgs.config THEN policyArgs.config["w_bit"]
    ELSE IF "bits" \in DOMAIN policyArgs.config THEN policyArgs.config["bits"]
    ELSE IntV(8)

\* the restriction of the raw config to the keys holding a granularity string
Granular ==
    [k \in {x \in DOMAIN policyArgs.config :
               policyArgs.config[x] \in {StrV("per-tensor"), StrV("per-token")}}
        |-> policyArgs.config[k]]

\* the quantMap a call is given
GivenMap == IF policyArgs.op = "construct" THEN policyArgs.quant_map ELSE Dict(Granular)

Called == policyResult # NoPolicy

\* C3: a call given a bit width other than 8 fails with UnsupportedBitWidth and
\* yields no policy, whatever the quantMap (direct construction and from_config).
C3_UnsupportedBitWidth ==
    (Called /\ GivenBits # IntV(8)) =>
        /\ policyResult.raised = "UnsupportedBitWidth"
        /\ policyResult.weight_bits = NoneV
        /\ policyResult.quant_map = NoneMap

\* C3 witness: a bit width other than 8 together with an absent quantMap, and a
\* from_config call whose bit-width key holds 4 beside a granularity entry.
C3_Witness ==
    /\ Called
    /\ GivenBits # IntV(8)
    /\ policyResult.raised = "UnsupportedBitWidth"
    /\ \/ policyArgs.op = "construct" /\ policyArgs.quant_map.none
       \/ policyArgs.op = "from_config" /\ DOMAIN Granular # {}

\* C4 (as stated): a call given an absent or empty quantMap fails with
\* EmptyQuantizationMap for every bit width.
C4_EmptyMapAlwaysEmptyError ==
    (Called /\ (GivenMap.none \/ DOMAIN GivenMap.map = {})) =>
        policyResult.raised = "EmptyQuantizationMap"

\* C4 (amended): a call given an absent or empty quantMap fails and yields no
\* policy: with EmptyQuantizationMap when the bit width is 8, with
\* UnsupportedBitWidth otherwise.
C4_EmptyMapFails ==
    (Called /\ (GivenMap.none \/ DOMAIN GivenMap.map = {})) =>
        /\ policyResult.raised =
              IF GivenBits = IntV(8) THEN "EmptyQuantizationMap" ELSE "UnsupportedBitWidth"
        /\ policyResult.weight_bits = NoneV
        /\ policyResult.quant_map = NoneMap

\* C4 witness: bit width 8 with an absent quantMap fails with EmptyQuantizationMap.
C4_Witness ==
    /\ Called
    /\ policyArgs.op = "construct"
    /\ policyArgs.weight_bits = IntV(8)
    /\ policyArgs.quant_map.none
    /\ policyResult.raised = "EmptyQuantizationMap"

\* C5: from_config(config) is Construct(b, m) with m the restriction of config
\* to the granularity-valued keys and b the value under "w_bit" or "bits", or 8
\* when neither is present; with no bit-width key and a granularity entry the
\* result is a policy with weightBits 8 and that map, and no error.
C5_FromConfigIsConstruct ==
    (Called /\ policyArgs.op = "from_config") =>
        /\ [policyResult EXCEPT !.warned = FALSE] = Construct(GivenBits, Dict(Granular))
        /\ ({"w_bit", "bits"} \cap DOMAIN policyArgs.config = {} /\ DOMAIN Granular # {}) =>
              /\ policyResult.raised = ""
              /\ policyResult.weight_bits = IntV(8)
              /\ policyResult.quant_map = Dict(Granular)

\* C5 witness: no bit-width key, one granularity entry and one ignored entry.
C5_Witness ==
    /\ Called
    /\ policyArgs.op = "from_config"
    /\ {"w_bit", "bits"} \cap DOMAIN policyArgs.config = {}
    /\ DOMAIN Granular # {}
    /\ DOMAIN Granular # DOMAIN policyArgs.config
    /\ policyResult.raised = ""
    /\ policyResult.warned

----------------------------------------------------------------------------
(* Tensors (torch), as far as create_weights and apply_weights use them *)

NoAttr == -1

RECURSIVE Product(_)
Product(shape) == IF shape = <<>> THEN 1 ELSE Head(shape) * Product(Tail(shape))

Front(q) == SubSeq(q, 1, Len(q) - 1)
Last(q) == q[Len(q)]

\* contents of a storage nobody has written yet, or that a caller filled:
\* n int8 values picked by seed
Pattern(seed, n) == [i \in 1..n |-> ((seed * 97 + i * 61) % 256) - 128]

UninitSeeds == {0, 1}

\* a contiguous tensor: id names its storage, data is row-major
Tensor(id, dtype, device, shape, data) ==
    [id |-> id, dtype |-> dtype, device |-> device, shape |-> shape, data |-> data,
     requires_grad |-> FALSE, input_dim |-> NoAttr, output_dim |-> NoAttr]

NoTensor == Tensor(0, "none", "none", <<>>, <<>>)

\* torch.empty(*shape, dtype=, device=): a new storage with arbitrary contents
TorchEmpty(shape, dtype, device, id, seed) ==
    Tensor(id, dtype, device, shape, Pattern(seed, Product(shape)))

\* torch.tensor(1.0, dtype=torch.float32, device='cpu'): a 0-d tensor; the one
\* float value used, 1.0, is written 1
TorchScalar(value, dtype, device, id) == Tensor(id, dtype, device, <<>>, <<value>>)

\* Tensor.view(*shape) of a contiguous tensor, shape holding at most one -1:
\* the same storage under the new shape, or RuntimeError
View(t, shape) ==
    LET numel == Product(t.shape)
        infer == {i \in DOMAIN shape : shape[i] = -1}
        known == Product([i \in DOMAIN shape |-> IF i \in infer THEN 1 ELSE shape[i]])
    IN IF infer # {}
         THEN IF known = 0 \/ numel % known # 0
                THEN [raised |-> TRUE, t |-> NoTensor]
                ELSE [raised |-> FALSE,
                      t |-> [t EXCEPT !.shape = [i \in DOMAIN shape |->
                                IF i \in infer THEN numel \div known ELSE shape[i]]]]
         ELSE IF numel = known
                THEN [raised |-> FALSE, t |-> [t EXCEPT !.shape = shape]]
                ELSE [raised |-> TRUE, t |-> NoTensor]

\* set_weight_attrs(weight, {"input_dim": ..., "output_dim": ...})
SetWeightAttrs(t, input_dim, output_dim) ==
    [t EXCEPT !.input_dim = input_dim, !.output_dim = output_dim]

RECURSIVE Dot(_, _, _, _, _)
\* sum over k in 1..n of a[ao + k] * b[bo + k]
Dot(a, ao, b, bo, n) ==
    IF n = 0 THEN 0 ELSE a[ao + n] * b[bo + n] + Dot(a, ao, b, bo, n - 1)

\* I8CUGEMM.linear_a8_w8_o32_(x, weight, y): fills y[i, j] with the sum over k of
\* x[i, k] * weight[j, k]; x is [B, K], weight [M, K], y [B, M]
linear_a8_w8_o32_(x, weight, y) ==
    LET K == x.shape[2]
        M == weight.shape[1]
    IN [x |-> x,
        weight |-> weight,
        y |-> [y EXCEPT !.data = [n \in 1..Len(y.data) |->
                  Dot(x.data, ((n - 1) \div M) * K, weight.data, ((n - 1) % M) * K, K)]]]

----------------------------------------------------------------------------
(* SQLinearMethod.create_weights and apply_weights *)

\* a plausible slip: the two sizes in the other order
WeightShapeInFirst(input_size_per_partition, output_size_per_partition) ==
    <<input_size_per_partition, output_size_per_partition>>

\* torch.empty(output_size_per_partition, input_size_per_partition, ...)
WeightShape(input_size_per_partition, output_size_per_partition) ==
    <<output_size_per_partition, input_size_per_partition>>

\* Parameter(torch.tensor(1.0, dtype=torch.float32, device='cpu'), requires_grad=False)
ScaleParameter(id) == TorchScalar(1, "float32", "cpu", id)

\* create_weights; id is the first free storage, seed picks the contents
\* torch.empty leaves in the weight
create_weights(input_size_per_partition, output_size_per_partition, input_size, output_size, params_dtype, id, seed) ==
    LET weight == SetWeightAttrs(
                     TorchEmpty(WeightShape(input_size_per_partition,
                                            output_size_per_partition),
                                "int8", "cuda", id, seed),
                     1, 0)
    IN [weight |-> weight,
        q_dequant_scale |-> ScaleParameter(id + 1),
        k_dequant_scale |-> ScaleParameter(id + 2),
        v_dequant_scale |-> ScaleParameter(id + 3),
        gate_dequant_scale |-> ScaleParameter(id + 4),
        up_dequant_scale |-> ScaleParameter(id + 5),
        dequant_scale |-> ScaleParameter(id + 6)]

TensorsPerLayer == 7

ScaleNames == {"q_dequant_scale", "k_dequant_scale", "v_dequant_scale",
               "gate_dequant_scale", "up_dequant_scale", "dequant_scale"}

\* a plausible slip: the bias is never looked at
BiasRejectedNever(bias) == FALSE

\* assert bias is None
BiasRejected(bias) == bias # NoTensor

\* a plausible slip: the product lands in the weight's storage instead of y's
KernelCallIntoWeight(x, weight, y) ==
    LET r == linear_a8_w8_o32_(x, weight, y)
    IN [x |-> x,
        weight |-> [weight EXCEPT !.data = [i \in DOMAIN weight.data |->
                       IF i <= Len(r.y.data) THEN r.y.data[i] ELSE weight.data[i]]],
        y |-> y]

\* self.i8cugemm.linear_a8_w8_o32_(x, weight, y)
KernelCall(x, weight, y) == linear_a8_w8_o32_(x, weight, y)

\* what a call did: the error raised ("" for none), the tensor returned, the
\* arguments as the call left them, and how many storages it allocated and how
\* often it invoked the kernel
Did(raised, y, weights, x, allocated, kernelCalls) ==
    [raised |-> raised, y |-> y, weights |-> weights, x |-> x,
     allocated |-> allocated, kernelCalls |-> kernelCalls]

\* apply_weights; id is the first free storage, seed picks the contents
\* torch.empty leaves in y
apply_weights(weights, x, bias, id, seed) ==
    IF BiasRejected(bias)
      THEN Did("UnsupportedBias", NoTensor, weights, x, 0, 0)
      ELSE
        LET weight == weights.weight
            x_shape == x.shape
            x2 == View(x, <<-1, Last(x_shape)>>)
        IN IF x2.raised
             THEN Did("RuntimeError", NoTensor, weights, x, 0, 0)
             ELSE
               LET y == TorchEmpty(<<x2.t.shape[1], weight.shape[1]>>, "int32",
                                   x2.t.device, id, seed)
                   k == KernelCall(x2.t, weight, y)
                   y2 == View(k.y, Front(x_shape) \o <<-1>>)
                   weightsAfter == [weights EXCEPT !.weight = k.weight]
                   xAfter == [k.x EXCEPT !.shape = x_shape]
               IN IF y2.raised
                    THEN Did("RuntimeError", NoTensor, weightsAfter, xAfter, 1, 1)
                    ELSE Did("", y2.t, weightsAfter, xAfter, 1, 1)

NoWeights == [weight |-> NoTensor, q_dequant_scale |-> NoTensor,
              k_dequant_scale |-> NoTensor, v_dequant_scale |-> NoTensor,
              gate_dequant_scale |-> NoTensor, up_dequant_scale |-> NoTensor,
              dequant_scale |-> NoTensor]

NoCall == [op |-> "none", input_size_per_partition |-> 0, output_size_per_partition |-> 0,
           input_size |-> 0, output_size |-> 0, params_dtype |-> "none",
           x |-> NoTensor, bias |-> NoTensor, seed |-> 0]

NotCalled == Did("not called", NoTensor, NoWeights, NoTensor, 0, 0)

\* the caller's arguments
ParamsDTypes == {"float16", "float32"}
TensorParallelSizes == {1, 2}

Shapes(rank, dim) == UNION {[1..n -> 0..dim] : n \in 0..rank}

\* an int8 input [d1, ..., dn, K] on the accelerator, owned by the caller
Input(leading, K, seed) ==
    Tensor(0, "int8", "cuda", leading \o <<K>>, Pattern(seed, Product(leading) * K))

\* a bias of the layer's activation dtype, one entry per output feature
Bias(M) == Tensor(0, "float16", "cuda", <<M>>, [i \in 1..M |-> 0])

LinearIdle ==
    /\ layers = <<>>
    /\ nextId = 1
    /\ callArgs = NoCall
    /\ callResult = NotCalled

\* SpecCall: one call with its arguments; an apply_weights call is given the
\* weights dict of an earlier create_weights(K, M, ...) call of a layer with at
\* least one input and one output feature, and an input with any leading sizes
CallInputs ==
    {[NoCall EXCEPT !.op = "create",
                    !.input_size_per_partition = i, !.output_size_per_partition = o,
                    !.input_size = i * tp, !.output_size = o * tp,
                    !.params_dtype = d, !.seed = s] :
        i \in 0..MaxDim, o \in 0..MaxDim, tp \in TensorParallelSizes,
        d \in ParamsDTypes, s \in UninitSeeds}
    \cup
    {[NoCall EXCEPT !.op = "apply",
                    !.input_size_per_partition = K, !.output_size_per_partition = M,
                    !.input_size = K, !.output_size = M,
                    !.params_dtype = "float16", !.seed = s[1],
                    !.x = Input(leading, K, s[2]),
                    !.bias = IF b THEN Bias(M) ELSE NoTensor] :
        K \in 1..MaxDim, M \in 1..MaxDim, leading \in Shapes(MaxRank, MaxDim),
        s \in UninitSeeds \X UninitSeeds, b \in BOOLEAN}

CallWeights(a) ==
    create_weights(a.input_size_per_partition, a.output_size_per_partition,
                   a.input_size, a.output_size, a.params_dtype, 1, a.seed)

CallInit ==
    /\ callArgs \in CallInputs
    /\ layers = IF callArgs.op = "apply" THEN <<CallWeights(callArgs)>> ELSE <<>>
    /\ nextId = IF callArgs.op = "apply" THEN 1 + TensorsPerLayer ELSE 1
    /\ callResult = NotCalled

\* create_weights(...), the call of SpecCall
CreateWeightsCall ==
    /\ callArgs.op = "create"
    /\ callResult = NotCalled
    /\ layers' = Append(layers,
                        create_weights(callArgs.input_size_per_partition,
                                       callArgs.output_size_per_partition,
                                       callArgs.input_size, callArgs.output_size,
                                       callArgs.params_dtype, nextId, callArgs.seed))
    /\ nextId' = nextId + TensorsPerLayer
    /\ callResult' = Did("", NoTensor, NoWeights, NoTensor, TensorsPerLayer, 0)
    /\ UNCHANGED <<callArgs, gemmVars, policyVars>>

\* apply_weights(weights, x, bias), the call of SpecCall
ApplyWeightsCall ==
    /\ callArgs.op = "apply"
    /\ callResult = NotCalled
    /\ \E seed \in UninitSeeds :
          LET r == apply_weights(layers[1], callArgs.x, callArgs.bias, nextId, seed)
          IN /\ callResult' = r
             /\ layers' = [layers EXCEPT ![1] = r.weights]
             /\ nextId' = nextId + r.allocated
    /\ UNCHANGED <<callArgs, gemmVars, policyVars>>

CallNext == CreateWeightsCall \/ ApplyWeightsCall

\* SpecLinear: any sequence of calls; callResult keeps the outcome of the latest
\* call without its tensors. Tensor contents are those of seed 1 (SpecCall varies
\* them), the sizes and the order of the calls vary.
Outcome(r) == [r EXCEPT !.y = NoTensor, !.x = NoTensor, !.weights = NoWeights]

\* create_weights(...) for one more layer
CreateWeights(i, o, tp, d, seed) ==
    /\ Len(layers) < MaxLayers
    /\ layers' = Append(layers, create_weights(i, o, i * tp, o * tp, d, nextId, seed))
    /\ nextId' = nextId + TensorsPerLayer
    /\ callResult' = Did("", NoTensor, NoWeights, NoTensor, TensorsPerLayer, 0)
    /\ UNCHANGED <<callArgs, gemmVars, policyVars>>

\* apply_weights(layers[L], x, bias) in a forward pass of layer L
ApplyWeights(L, x, bias, seed) ==
    /\ nextId - (1 + TensorsPerLayer * Len(layers)) < MaxApply
    /\ LET r == apply_weights(layers[L], x, bias, nextId, seed)
       IN /\ callResult' = Outcome(r)
          /\ layers' = [layers EXCEPT ![L] = r.weights]
          /\ nextId' = nextId + r.allocated
    /\ UNCHANGED <<callArgs, gemmVars, policyVars>>

LinearNext ==
    \/ \E i \in 0..MaxSize, o \in 0..MaxSize, d \in ParamsDTypes :
          CreateWeights(i, o, 1, d, 1)
    \/ \E L \in 1..Len(layers), leading \in Shapes(1, MaxSize), hasBias \in BOOLEAN :
          ApplyWeights(L, Input(leading, layers[L].weight.shape[2], 1),
                       IF hasBias THEN Bias(layers[L].weight.shape[1]) ELSE NoTensor, 0)

----------------------------------------------------------------------------
(* Claims about create_weights and apply_weights *)

ApplyDone == callArgs.op = "apply" /\ callResult # NotCalled
CreateDone == callArgs.op = "create" /\ callResult # NotCalled

\* C6: an apply_weights call with a bias fails with UnsupportedBias before
\* anything else happens: nothing is allocated, the kernel is not invoked, and
\* the weights and the input are as they were.
C6_BiasRejectedFirst ==
    (ApplyDone /\ callArgs.bias # NoTensor) =>
        /\ callResult.raised = "UnsupportedBias"
        /\ callResult.y = NoTensor
        /\ callResult.allocated = 0
        /\ callResult.kernelCalls = 0
        /\ nextId = 1 + TensorsPerLayer
        /\ callResult.x = callArgs.x
        /\ layers = <<CallWeights(callArgs)>>

\* C6 witness: a call with a bias, a non-empty input and a non-empty weight
\* was rejected.
C6_Witness ==
    /\ ApplyDone
    /\ callArgs.bias # NoTensor
    /\ callArgs.x.data # <<>>
    /\ Len(callArgs.x.shape) = 3
    /\ layers[1].weight.data # <<>>
    /\ callResult.raised = "UnsupportedBias"

\* all index tuples of a tensor of the given shape
Indices(shape) == {idx \in [DOMAIN shape -> 1..MaxDim] :
                      \A i \in DOMAIN shape : idx[i] <= shape[i]}

RECURSIVE Offset(_, _)
\* row-major position of index tuple idx in a tensor of the given shape
Offset(shape, idx) ==
    IF shape = <<>> THEN 0
    ELSE Offset(Front(shape), Front(idx)) * Last(shape) + (Last(idx) - 1)

At(t, idx) == t.data[Offset(t.shape, idx) + 1]

RECURSIVE SumOverK(_, _, _, _, _)
\* sum over k in 1..K of x[lead, k] * weight[j, k]
SumOverK(x, lead, weight, j, K) ==
    IF K = 0 THEN 0
    ELSE At(x, lead \o <<K>>) * At(weight, <<j, K>>) + SumOverK(x, lead, weight, j, K - 1)

\* C7: an apply_weights call without bias on an int8 input [d1..dn, K] and an
\* int8 weight [M, K] returns an int32 tensor of shape [d1..dn, M] whose entry
\* at (i1..in, j) is the sum over k of input[i1..in, k] * weight[j, k], for any
\* number and any sizes of the leading dimensions.
C7_ApplyIsBatchedProduct ==
    (ApplyDone /\ callArgs.bias = NoTensor) =>
        LET x == callArgs.x
            weight == CallWeights(callArgs).weight
            lead == Front(x.shape)
            K == Last(x.shape)
            M == weight.shape[1]
            y == callResult.y
        IN /\ callResult.raised = ""
           /\ y.dtype = "int32"
           /\ y.shape = lead \o <<M>>
           /\ \A idx \in Indices(lead), j \in 1..M :
                 At(y, idx \o <<j>>) = SumOverK(x, idx, weight, j, K)

\* C8: create_weights returns a weight of shape [outputPartitionSize,
\* inputPartitionSize] and element type int8 whatever elementDType and the
\* total sizes are, tagged input axis 1 and output axis 0, and exactly six
\* scale scalars, each a float32 tensor of its own holding 1.0.
C8_CreateWeightsLayout ==
    CreateDone =>
        /\ Len(layers) = 1
        /\ LET w == layers[1]
           IN /\ DOMAIN w = {"weight"} \cup ScaleNames
              /\ w.weight.shape = <<callArgs.output_size_per_partition,
                                    callArgs.input_size_per_partition>>
              /\ w.weight.dtype = "int8"
              /\ w.weight.input_dim = 1
              /\ w.weight.output_dim = 0
              /\ \A n \in ScaleNames :
                    /\ w[n].dtype = "float32"
                    /\ w[n].shape = <<>>
                    /\ w[n].data = <<1>>
              /\ Cardinality({w[n].id : n \in ScaleNames} \cup {w.weight.id})
                    = TensorsPerLayer

\* C8 witness: sizes that differ from each other and from the total sizes, for
\* a float16 layer.
C8_Witness ==
    /\ CreateDone
    /\ callArgs.input_size_per_partition = 2
    /\ callArgs.output_size_per_partition = 1
    /\ callArgs.input_size = 4
    /\ callArgs.params_dtype = "float16"
    /\ layers[1].weight.shape = <<1, 2>>

\* C9: no create_weights or apply_weights call, successful or failing, changes
\* a tensor of a weights dict created before it (weight or scale): layers only
\* ever grows at its end, and what a call allocates is new storage.
C9_CreatedTensorsNeverChange ==
    [][/\ Len(layers') >= Len(layers)
       /\ \A i \in 1..Len(layers) : layers'[i] = layers[i]
       /\ nextId' >= nextId
       /\ \A i \in (Len(layers) + 1)..Len(layers') :
             \A n \in DOMAIN layers'[i] :
                layers'[i][n].id >= nextId /\ layers'[i][n].id < nextId']_vars

\* C9 witness: two layers exist and the latest call, a successful apply_weights
\* that invoked the kernel and allocated its output, came after both.
C9_Witness ==
    /\ Len(layers) = 2
    /\ callResult.raised = ""
    /\ callResult.kernelCalls = 1
    /\ nextId > 1 + TensorsPerLayer * 2
    /\ \E i \in 1..2 : layers[i].weight.data # <<>>

----------------------------------------------------------------------------
Init == GemmInit /\ PolicyIdle /\ LinearIdle

SpecGemm == Init /\ [][GemmNext]_vars

InitPolicy == GemmInit /\ PolicyInit /\ LinearIdle

SpecPolicy == InitPolicy /\ [][PolicyNext]_vars

InitCall == GemmInit /\ PolicyIdle /\ CallInit

SpecCall == InitCall /\ [][CallNext]_vars

SpecLinear == Init /\ [][LinearNext]_vars

====
